---- MODULE Spec2Model ----
(***************************************************************************)
(* Model of alembic_utils/statement.py: the whitespace/quote normalizers,  *)
(* the colon escapers, the identifier quoting coercions and the            *)
(* storage-parameter codec.  A Python str is a sequence of one-character   *)
(* strings; every function of the module is an operator computed the way   *)
(* the Python code computes it, and every call is one action that records  *)
(* its argument and its result.                                            *)
(***************************************************************************)
EXTENDS Integers, Sequences, FiniteSets, TLC

VARIABLES op, text, base_whitespace, holders, params, res, parsed, raised

vars == <<op, text, base_whitespace, holders, params, res, parsed, raised>>

(***************************************************************************)
(* Bounds of the model.                                                    *)
(***************************************************************************)
MaxTextLen == 4
MaxSqlLen == 4
HolderLen == 2
MaxRefLen == 7
MaxClauseLen == 4
MaxParams == 2

(***************************************************************************)
(* Character classes and the bounded input sets.                           *)
(***************************************************************************)
Whitespace == {" ", "\n", "\t"}
Digits == {"0", "1", "2", "3", "4", "5", "6", "7", "8", "9"}

StringsUpTo(alphabet, n) == UNION {[1..k -> alphabet] : k \in 0..n}

TextAlphabet == {" ", "\n", ";", "\"", "a"}
SqlAlphabet == {":", "=", "\\", "a"}
HexAlphabet == {"a", "b", "c"}
RefAlphabet == {"\"", ".", "a", "b"}
ClauseAlphabet == {"p", "8", "0", "=", ",", " ", "."}

Texts == StringsUpTo(TextAlphabet, MaxTextLen)
Separators == {<<" ">>, <<"\n">>, <<>>}
Sqls == StringsUpTo(SqlAlphabet, MaxSqlLen)
Refs == StringsUpTo(RefAlphabet, MaxRefLen)
Clauses == StringsUpTo(ClauseAlphabet, MaxClauseLen)

(***************************************************************************)
(* Python str primitives.                                                  *)
(***************************************************************************)
MinOf(S) == CHOOSE x \in S : \A y \in S : x <= y
MaxOf(S) == CHOOSE x \in S : \A y \in S : x >= y

\* str.lstrip(chars): drop the longest prefix made of characters of cs.
LStripChars(s, cs) ==
    LET keep == {i \in 1..Len(s) : s[i] \notin cs}
    IN  IF keep = {} THEN <<>> ELSE SubSeq(s, MinOf(keep), Len(s))

\* str.rstrip(chars): drop the longest suffix made of characters of cs.
RStripChars(s, cs) ==
    LET keep == {i \in 1..Len(s) : s[i] \notin cs}
    IN  IF keep = {} THEN <<>> ELSE SubSeq(s, 1, MaxOf(keep))

\* str.strip(): drop leading and trailing whitespace.
Strip(s) == RStripChars(LStripChars(s, Whitespace), Whitespace)

\* c in s
Contains(s, c) == \E i \in 1..Len(s) : s[i] = c

\* sub in s, for a string sub
Occurs(sub, s) ==
    \E i \in 1..(Len(s) - Len(sub) + 1) : SubSeq(s, i, i + Len(sub) - 1) = sub

\* str.split(): the maximal runs of non-whitespace characters, in order.
RECURSIVE SplitWhitespace(_)
SplitWhitespace(s) ==
    LET t == LStripChars(s, Whitespace)
    IN  IF t = <<>> THEN <<>>
        ELSE LET ws == {i \in 1..Len(t) : t[i] \in Whitespace}
                 n == IF ws = {} THEN Len(t) ELSE MinOf(ws) - 1
             IN  <<SubSeq(t, 1, n)>> \o SplitWhitespace(SubSeq(t, n + 1, Len(t)))

\* str.split(c): cut at every occurrence of the character c; never empty.
RECURSIVE SplitOn(_, _)
SplitOn(s, c) ==
    LET at == {i \in 1..Len(s) : s[i] = c}
    IN  IF at = {} THEN <<s>>
        ELSE <<SubSeq(s, 1, MinOf(at) - 1)>>
                 \o SplitOn(SubSeq(s, MinOf(at) + 1, Len(s)), c)

\* str.partition(c) / str.split(c, 1) of a string that contains c:
\* the text before and the text after the first c.
Partition(s, c) ==
    LET k == MinOf({i \in 1..Len(s) : s[i] = c})
    IN  <<SubSeq(s, 1, k - 1), SubSeq(s, k + 1, Len(s))>>

\* sep.join(parts)
RECURSIVE Join(_, _)
Join(parts, sep) ==
    IF parts = <<>> THEN <<>>
    ELSE IF Len(parts) = 1 THEN parts[1]
    ELSE parts[1] \o sep \o Join(Tail(parts), sep)

\* str.replace(old, new) for a non-empty old: left to right, non-overlapping.
RECURSIVE Replace(_, _, _)
Replace(s, old, new) ==
    IF Len(s) < Len(old) THEN s
    ELSE IF SubSeq(s, 1, Len(old)) = old
         THEN new \o Replace(SubSeq(s, Len(old) + 1, Len(s)), old, new)
         ELSE <<s[1]>> \o Replace(Tail(s), old, new)

(***************************************************************************)
(* The whitespace/quote normalizers.                                       *)
(***************************************************************************)
normalize_whitespace(t, sep) == Strip(Join(SplitWhitespace(t), sep))

\* strip_terminating_semicolon taking one semicolon only.
StripOneSemicolon(sql) ==
    LET t == Strip(sql)
    IN  IF t # <<>> /\ t[Len(t)] = ";"
        THEN Strip(SubSeq(t, 1, Len(t) - 1))
        ELSE t

strip_terminating_semicolon(sql) == Strip(RStripChars(Strip(sql), {";"}))

\* strip_double_quotes taking one double quote at each end only.
StripOneLayerOfQuotes(sql) ==
    LET t == Strip(sql)
        s1 == IF t # <<>> /\ t[Len(t)] = "\""
              THEN Strip(SubSeq(t, 1, Len(t) - 1)) ELSE t
    IN  IF s1 # <<>> /\ s1[1] = "\"" THEN Strip(Tail(s1)) ELSE s1

strip_double_quotes(sql) ==
    LET s1 == RStripChars(Strip(sql), {"\""})
    IN  Strip(LStripChars(Strip(s1), {"\""}))

(***************************************************************************)
(* The colon escapers.  str(uuid4()) is a random string of hexadecimal     *)
(* digits (and hyphens), drawn without looking at the SQL text: here any   *)
(* string of HolderLen characters of HexAlphabet.                          *)
(***************************************************************************)
Uuid4Strings == [1..HolderLen -> HexAlphabet]

escape_colon_for_sql(sql, holder) ==
    LET s1 == Replace(sql, <<":", ":">>, holder)
        s2 == Replace(s1, <<":">>, <<"\\", ":">>)
    IN  Replace(s2, holder, <<":", ":">>)

escape_colon_for_plpgsql(sql, holder1, holder2, holder3) ==
    LET s1 == Replace(sql, <<":", ":">>, holder1)
        s2 == Replace(s1, <<":", "=">>, holder2)
        s3 == Replace(s2, <<"\\", ":">>, holder3)
        s4 == Replace(s3, <<":">>, <<"\\", ":">>)
        s5 == Replace(s4, holder3, <<"\\", ":">>)
        s6 == Replace(s5, holder2, <<":", "=">>)
    IN  Replace(s6, holder1, <<":", ":">>)

(***************************************************************************)
(* The identifier quoting coercions.                                       *)
(***************************************************************************)
Quote == <<"\"">>

\* coerce_to_quoted wrapping the name part without stripping its quotes.
CoerceToQuotedNameKept(t) ==
    IF Contains(t, ".")
    THEN LET sn == Partition(t, ".")
         IN  Quote \o strip_double_quotes(sn[1]) \o Quote \o <<".">>
                 \o Quote \o sn[2] \o Quote
    ELSE Quote \o t \o Quote

coerce_to_quoted(t) ==
    IF Contains(t, ".")
    THEN LET sn == Partition(t, ".")
             schema == Quote \o strip_double_quotes(sn[1]) \o Quote
             name == Quote \o strip_double_quotes(sn[2]) \o Quote
         IN  schema \o <<".">> \o name
    ELSE Quote \o strip_double_quotes(t) \o Quote

coerce_to_unquoted(t) == Join(SplitOn(t, "\""), <<>>)

(***************************************************************************)
(* StorageParameter: a bare flag (a str) or a tuple (key, value) whose     *)
(* value is a str, an int or a float.  A float is kept as its integer part *)
(* and its fractional digits without trailing zeros.                       *)
(***************************************************************************)
NoVal == [t |-> "none", s |-> <<>>, n |-> 0, fd |-> <<>>]
StrVal(s) == [t |-> "str", s |-> s, n |-> 0, fd |-> <<>>]
IntVal(n) == [t |-> "int", s |-> <<>>, n |-> n, fd |-> <<>>]
FloatVal(n, fd) == [t |-> "float", s |-> <<>>, n |-> n, fd |-> fd]

FlagParam(name) == [kind |-> "flag", key |-> name, val |-> NoVal]
PairParam(key, val) == [kind |-> "pair", key |-> key, val |-> val]

\* Optional[list[StorageParameter]]
NoneParams == [none |-> TRUE, items |-> <<>>]
ListParams(items) == [none |-> FALSE, items |-> items]

DigitChars == <<"0", "1", "2", "3", "4", "5", "6", "7", "8", "9">>
DigitVal(c) == (CHOOSE i \in 1..10 : DigitChars[i] = c) - 1

RECURSIVE DecimalVal(_)
DecimalVal(ds) ==
    IF ds = <<>> THEN 0
    ELSE 10 * DecimalVal(SubSeq(ds, 1, Len(ds) - 1)) + DigitVal(ds[Len(ds)])

AllDigits(s) == \A i \in 1..Len(s) : s[i] \in Digits

\* int(s) of an unsigned decimal literal: surrounding whitespace is ignored,
\* anything else raises ValueError.
PyIntOk(s) == Strip(s) # <<>> /\ AllDigits(Strip(s))
PyIntVal(s) == IntVal(DecimalVal(Strip(s)))

\* float(s) of an unsigned decimal literal "d", "d.", "d.d" or ".d".
PyFloatOk(s) ==
    LET t == Strip(s)
        dots == {i \in 1..Len(t) : t[i] = "."}
    IN  /\ Cardinality(dots) <= 1
        /\ Len(t) > Cardinality(dots)
        /\ \A i \in (1..Len(t)) \ dots : t[i] \in Digits
PyFloatVal(s) ==
    LET t == Strip(s)
        ip == IF Contains(t, ".") THEN Partition(t, ".")[1] ELSE t
        fp == IF Contains(t, ".") THEN Partition(t, ".")[2] ELSE <<>>
    IN  FloatVal(DecimalVal(ip), RStripChars(fp, {"0"}))

\* str(n) of an int n >= 0
RECURSIVE IntToStr(_)
IntToStr(n) ==
    IF n < 10 THEN <<DigitChars[n + 1]>>
    ELSE IntToStr(n \div 10) \o <<DigitChars[(n % 10) + 1]>>

\* f"{value}": the text of a str, str(int), or repr(float) in fixed notation.
PyStr(v) ==
    IF v.t = "str" THEN v.s
    ELSE IF v.t = "int" THEN IntToStr(v.n)
    ELSE IntToStr(v.n) \o <<".">> \o (IF v.fd = <<>> THEN <<"0">> ELSE v.fd)

(***************************************************************************)
(* The storage-parameter codec.                                            *)
(***************************************************************************)
WithOpen == <<" ", "W", "I", "T", "H", " ", "(">>

\* RenderParam rendering a str value by its repr, in quotes.
RenderParamRepr(param) ==
    IF param.kind = "flag" THEN param.key
    ELSE IF param.val.t = "str"
         THEN param.key \o <<"=", "\"">> \o param.val.s \o <<"\"">>
    ELSE param.key \o <<"=">> \o PyStr(param.val)

RenderParam(param) ==
    IF param.kind = "flag" THEN param.key
    ELSE param.key \o <<"=">> \o PyStr(param.val)

format_storage_parameters_clause(storage_parameters) ==
    IF storage_parameters.none \/ Len(storage_parameters.items) = 0
    THEN <<>>
    ELSE LET ps == [i \in 1..Len(storage_parameters.items) |->
                       RenderParam(storage_parameters.items[i])]
         IN  WithOpen \o Join(ps, <<",", " ">>) \o <<")">>

\* One iteration of the loop of parse_storage_parameters: the exception it
\* raises ("none" when it raises nothing) and the element it appends.
\* part[0] and part[1] index the characters of the part itself.
ParsePart(part) ==
    IF ~Contains(part, "=")
    THEN [exc |-> "none", param |-> FlagParam(Strip(part))]
    ELSE LET split_part == Partition(part, "=")
             new_part == PairParam(Strip(split_part[1]),
                                   StrVal(Strip(split_part[2])))
         IN  IF Len(part) < 2
             THEN [exc |-> "IndexError", param |-> new_part]
             ELSE IF PyIntOk(<<part[2]>>)
             THEN [exc |-> "none",
                   param |-> PairParam(<<part[1]>>, PyIntVal(<<part[2]>>))]
             ELSE IF PyFloatOk(<<part[2]>>)
             THEN [exc |-> "none",
                   param |-> PairParam(<<part[1]>>, PyFloatVal(<<part[2]>>))]
             ELSE [exc |-> "none", param |-> new_part]

parse_storage_parameters(storage_parameters) ==
    LET parts == SplitOn(storage_parameters, ",")
        each == [i \in 1..Len(parts) |-> ParsePart(parts[i])]
        bad == {i \in 1..Len(parts) : each[i].exc # "none"}
    IN  IF bad # {}
        THEN [exc |-> each[MinOf(bad)].exc, val |-> <<>>]
        ELSE [exc |-> "none", val |-> [i \in 1..Len(parts) |-> each[i].param]]

(***************************************************************************)
(* Inputs of format_storage_parameters_clause.                             *)
(***************************************************************************)
ParamNames == {<<"p">>, <<"q">>}
ParamValues == {StrVal(<<"'", "t", "'">>), IntVal(70), IntVal(0),
                FloatVal(80, <<"5">>)}
StorageParameters ==
    {FlagParam(k) : k \in ParamNames}
        \cup {PairParam(k, v) : k \in ParamNames, v \in ParamValues}
ParamLists ==
    {NoneParams}
        \cup {ListParams(l) :
                 l \in UNION {[1..k -> StorageParameters] : k \in 0..MaxParams}}

(***************************************************************************)
(* The state: the call made, its arguments and its outcome.  The functions *)
(* are pure and keep nothing between calls, so a behaviour is one call:    *)
(* op is "none" before it and the name of the function after it.           *)
(***************************************************************************)
Init ==
    /\ op = "none"
    /\ text = <<>>
    /\ base_whitespace = <<>>
    /\ holders = <<>>
    /\ params = NoneParams
    /\ res = <<>>
    /\ parsed = <<>>
    /\ raised = "none"

NormalizeWhitespace ==
    /\ op = "none"
    /\ \E t \in Texts, sep \in Separators :
        /\ op' = "normalize_whitespace"
        /\ text' = t
        /\ base_whitespace' = sep
        /\ res' = normalize_whitespace(t, sep)
        /\ UNCHANGED <<holders, params, parsed, raised>>

StripTerminatingSemicolon ==
    /\ op = "none"
    /\ \E t \in Texts :
        /\ op' = "strip_terminating_semicolon"
        /\ text' = t
        /\ res' = strip_terminating_semicolon(t)
        /\ UNCHANGED <<base_whitespace, holders, params, parsed, raised>>

StripDoubleQuotes ==
    /\ op = "none"
    /\ \E t \in Texts :
        /\ op' = "strip_double_quotes"
        /\ text' = t
        /\ res' = strip_double_quotes(t)
        /\ UNCHANGED <<base_whitespace, holders, params, parsed, raised>>

EscapeColonForSql ==
    /\ op = "none"
    /\ \E sql \in Sqls, holder \in Uuid4Strings :
        /\ op' = "escape_colon_for_sql"
        /\ text' = sql
        /\ holders' = <<holder>>
        /\ res' = escape_colon_for_sql(sql, holder)
        /\ UNCHANGED <<base_whitespace, params, parsed, raised>>

EscapeColonForPlpgsql ==
    /\ op = "none"
    /\ \E sql \in Sqls, holder1 \in Uuid4Strings, holder2 \in Uuid4Strings,
          holder3 \in Uuid4Strings :
        /\ op' = "escape_colon_for_plpgsql"
        /\ text' = sql
        /\ holders' = <<holder1, holder2, holder3>>
        /\ res' = escape_colon_for_plpgsql(sql, holder1, holder2, holder3)
        /\ UNCHANGED <<base_whitespace, params, parsed, raised>>

CoerceToQuoted ==
    /\ op = "none"
    /\ \E t \in Refs :
        /\ op' = "coerce_to_quoted"
        /\ text' = t
        /\ res' = coerce_to_quoted(t)
        /\ UNCHANGED <<base_whitespace, holders, params, parsed, raised>>

CoerceToUnquoted ==
    /\ op = "none"
    /\ \E t \in Refs :
        /\ op' = "coerce_to_unquoted"
        /\ text' = t
        /\ res' = coerce_to_unquoted(t)
        /\ UNCHANGED <<base_whitespace, holders, params, parsed, raised>>

FormatStorageParametersClause ==
    /\ op = "none"
    /\ \E ps \in ParamLists :
        /\ op' = "format_storage_parameters_clause"
        /\ params' = ps
        /\ res' = format_storage_parameters_clause(ps)
        /\ UNCHANGED <<text, base_whitespace, holders, parsed, raised>>

\* A call that raises returns nothing: parsed stays empty.
ParseStorageParameters ==
    /\ op = "none"
    /\ \E t \in Clauses :
        /\ op' = "parse_storage_parameters"
        /\ text' = t
        /\ parsed' = parse_storage_parameters(t).val
        /\ raised' = parse_storage_parameters(t).exc
        /\ UNCHANGED <<base_whitespace, holders, params, res>>

NextNormalizer ==
    \/ NormalizeWhitespace
    \/ StripTerminatingSemicolon
    \/ StripDoubleQuotes

NextEscaper ==
    \/ EscapeColonForSql
    \/ EscapeColonForPlpgsql

NextQuoting ==
    \/ CoerceToQuoted
    \/ CoerceToUnquoted

NextCodec ==
    \/ FormatStorageParametersClause
    \/ ParseStorageParameters

Next ==
    \/ NormalizeWhitespace
    \/ StripTerminatingSemicolon
    \/ StripDoubleQuotes
    \/ EscapeColonForSql
    \/ EscapeColonForPlpgsql
    \/ CoerceToQuoted
    \/ CoerceToUnquoted
    \/ FormatStorageParametersClause
    \/ ParseStorageParameters

Spec == Init /\ [][Next]_vars
SpecNormalizer == Init /\ [][NextNormalizer]_vars
SpecEscaper == Init /\ [][NextEscaper]_vars
SpecQuoting == Init /\ [][NextQuoting]_vars
SpecCodec == Init /\ [][NextCodec]_vars

(***************************************************************************)
(* C1.  parse_storage_parameters returns one element per comma-separated   *)
(* part, in order: a part without "=" is the bare flag of its trimmed      *)
(* text; a part with "=" is the pair of the trimmed key and of the value   *)
(* after the first "=", an int when that trimmed text is an integer        *)
(* literal, otherwise a float when it is a float literal, otherwise the    *)
(* text itself.                                                            *)
(***************************************************************************)
ClaimedPart(part) ==
    IF ~Contains(part, "=") THEN FlagParam(Strip(part))
    ELSE LET kv == Partition(part, "=")
             v == Strip(kv[2])
         IN  PairParam(Strip(kv[1]),
                       IF PyIntOk(v) THEN PyIntVal(v)
                       ELSE IF PyFloatOk(v) THEN PyFloatVal(v)
                       ELSE StrVal(v))

ClaimedParse(t) ==
    LET parts == SplitOn(t, ",")
    IN  [i \in 1..Len(parts) |-> ClaimedPart(parts[i])]

C1_ParseClauseTyped ==
    (op = "parse_storage_parameters" /\ raised = "none")
        => parsed = ClaimedParse(text)

(***************************************************************************)
(* C2.  Every transform is total: no call raises, whatever string it is    *)
(* given.                                                                  *)
(***************************************************************************)
C2_NeverRaises == raised = "none"

(***************************************************************************)
(* C3.  Round trip of the codec: for a syntactically valid clause body,    *)
(* parsing the parameter list that format_storage_parameters_clause        *)
(* renders from the parsed sequence gives the same typed sequence again.   *)
(***************************************************************************)
IsParamName(s) ==
    /\ s # <<>>
    /\ s[1] = "p"
    /\ \A i \in 1..Len(s) : s[i] \in {"p", "8", "0", "."}

IsParamValue(s) ==
    /\ \E i \in 1..Len(s) : s[i] \in {"p", "8", "0"}
    /\ \A i \in 1..Len(s) : s[i] \in {"p", "8", "0", "."}

ValidPart(part) ==
    LET u == Strip(part)
    IN  IF Contains(u, "=")
        THEN /\ IsParamName(Strip(Partition(u, "=")[1]))
             /\ IsParamValue(Strip(Partition(u, "=")[2]))
        ELSE IsParamName(u)

ValidClause(t) ==
    \A i \in 1..Len(SplitOn(t, ",")) : ValidPart(SplitOn(t, ",")[i])

\* The parameter list between " WITH (" and ")".
RenderedList(clause) == SubSeq(clause, Len(WithOpen) + 1, Len(clause) - 1)

C3_RoundTrip ==
    (op = "parse_storage_parameters" /\ raised = "none" /\ ValidClause(text))
        => LET again == parse_storage_parameters(RenderedList(
                            format_storage_parameters_clause(ListParams(parsed))))
           IN  again.exc = "none" /\ again.val = parsed

(***************************************************************************)
(* C4.  escape_colon_for_sql returns its input with one backslash put in   *)
(* front of every colon that is not part of a "::" pair (pairs taken left  *)
(* to right), and nothing else changed.                                    *)
(***************************************************************************)
RECURSIVE EscapeSingleColons(_)
EscapeSingleColons(s) ==
    IF s = <<>> THEN <<>>
    ELSE IF Len(s) >= 2 /\ s[1] = ":" /\ s[2] = ":"
         THEN <<":", ":">> \o EscapeSingleColons(SubSeq(s, 3, Len(s)))
    ELSE IF s[1] = ":"
         THEN <<"\\", ":">> \o EscapeSingleColons(Tail(s))
    ELSE <<s[1]>> \o EscapeSingleColons(Tail(s))

C4_EscapeSqlExact ==
    op = "escape_colon_for_sql" => res = EscapeSingleColons(text)

(***************************************************************************)
(* C5.  escape_colon_for_plpgsql keeps every "::", every ":=" and every    *)
(* "\:" as it is and puts one backslash in front of every other colon,     *)
(* the three sequences being set aside in that order and put back in the   *)
(* reverse order.  The sequences are set aside here with three marks that  *)
(* are no characters of any text.                                          *)
(***************************************************************************)
ClaimedPlpgsql(s) ==
    escape_colon_for_plpgsql(s, <<"<cast>">>, <<"<assign>">>, <<"<escaped>">>)

C5_PlpgsqlProtects ==
    op = "escape_colon_for_plpgsql" => res = ClaimedPlpgsql(text)

(***************************************************************************)
(* C6.  In every call of an escaper no placeholder occurs in the input     *)
(* text, and the three placeholders of the plpgsql variant are mutually    *)
(* distinct.                                                               *)
(***************************************************************************)
C6_HoldersCollisionFree ==
    op \in {"escape_colon_for_sql", "escape_colon_for_plpgsql"}
        => /\ \A i \in 1..Len(holders) : ~Occurs(holders[i], text)
           /\ \A i, j \in 1..Len(holders) : i # j => holders[i] # holders[j]

(***************************************************************************)
(* What the escapers do when the draw is lucky: with placeholders that     *)
(* share no character with the text or with each other, the results of C4  *)
(* and C5 are the claimed ones.                                            *)
(***************************************************************************)
Chars(s) == {s[i] : i \in 1..Len(s)}

HoldersApart ==
    /\ \A i \in 1..Len(holders) : Chars(holders[i]) \cap Chars(text) = {}
    /\ \A i, j \in 1..Len(holders) :
           i # j => Chars(holders[i]) \cap Chars(holders[j]) = {}

EscapeSqlExactWhenApart ==
    (op = "escape_colon_for_sql" /\ HoldersApart)
        => res = EscapeSingleColons(text)

PlpgsqlProtectsWhenApart ==
    (op = "escape_colon_for_plpgsql" /\ HoldersApart)
        => res = ClaimedPlpgsql(text)

(***************************************************************************)
(* C7.  format_storage_parameters_clause returns the empty string for an   *)
(* empty or absent (None) sequence; otherwise " WITH (", the items in the  *)
(* order and number of the input separated by ", ", and ")": a bare flag   *)
(* is its name, a pair is name=value with the value's own text and no      *)
(* added quoting.                                                          *)
(***************************************************************************)
ClaimedItem(param) ==
    IF param.kind = "flag" THEN param.key
    ELSE IF param.val.t = "str" THEN param.key \o <<"=">> \o param.val.s
    ELSE IF param.val.t = "int"
         THEN param.key \o <<"=">> \o IntToStr(param.val.n)
    ELSE param.key \o <<"=">> \o IntToStr(param.val.n) \o <<".">>
             \o (IF param.val.fd = <<>> THEN <<"0">> ELSE param.val.fd)

\* The items from the i-th on, each but the last followed by ", ".
RECURSIVE ClaimedItemsFrom(_, _)
ClaimedItemsFrom(items, i) ==
    IF i > Len(items) THEN <<>>
    ELSE ClaimedItem(items[i])
             \o (IF i < Len(items) THEN <<",", " ">> ELSE <<>>)
             \o ClaimedItemsFrom(items, i + 1)

C7_FormatClause ==
    op = "format_storage_parameters_clause"
        => /\ (params.none \/ params.items = <<>>) => res = <<>>
           /\ (~params.none /\ params.items # <<>>)
                  => res = <<" ", "W", "I", "T", "H", " ", "(">>
                               \o ClaimedItemsFrom(params.items, 1) \o <<")">>
           /\ params = ListParams(<<PairParam(<<"p">>, IntVal(70)),
                                    FlagParam(<<"q">>)>>)
                  => res = <<" ", "W", "I", "T", "H", " ", "(",
                             "p", "=", "7", "0", ",", " ", "q", ")">>

\* A pair with a quoted string value followed by the same pair again.
C7_Witness ==
    /\ op = "format_storage_parameters_clause"
    /\ params = ListParams(<<PairParam(<<"p">>, StrVal(<<"'", "t", "'">>)),
                             PairParam(<<"p">>, StrVal(<<"'", "t", "'">>))>>)
    /\ res = <<" ", "W", "I", "T", "H", " ", "(", "p", "=", "'", "t", "'",
               ",", " ", "p", "=", "'", "t", "'", ")">>

(***************************************************************************)
(* C8.  coerce_to_quoted maps a reference schema.name, each part either    *)
(* bare or wrapped in double quotes, to "schema"."name", and a reference   *)
(* without a dot, bare or wrapped, to "name": every quoting variant of a   *)
(* reference has the same fully quoted form.                               *)
(***************************************************************************)
IsIdentifier(part) ==
    /\ part # <<>>
    /\ \A i \in 1..Len(part) : part[i] \notin {"\"", "."} \cup Whitespace

\* part is an identifier, bare or wrapped in one pair of double quotes.
IsPart(part) ==
    \/ IsIdentifier(part)
    \/ /\ Len(part) >= 3
       /\ part[1] = "\""
       /\ part[Len(part)] = "\""
       /\ IsIdentifier(SubSeq(part, 2, Len(part) - 1))

NameOf(part) ==
    IF IsIdentifier(part) THEN part ELSE SubSeq(part, 2, Len(part) - 1)

C8_CoerceToQuoted ==
    op = "coerce_to_quoted"
        => /\ IsPart(text) => res = <<"\"">> \o NameOf(text) \o <<"\"">>
           /\ \A k \in 1..Len(text) :
                  ( /\ text[k] = "."
                    /\ IsPart(SubSeq(text, 1, k - 1))
                    /\ IsPart(SubSeq(text, k + 1, Len(text))) )
                      => res = <<"\"">> \o NameOf(SubSeq(text, 1, k - 1))
                                   \o <<"\"", ".", "\"">>
                                   \o NameOf(SubSeq(text, k + 1, Len(text)))
                                   \o <<"\"">>

C8_Witness ==
    /\ op = "coerce_to_quoted"
    /\ text = <<"\"", "a", "\"", ".", "b">>
    /\ res = <<"\"", "a", "\"", ".", "\"", "b", "\"">>

(***************************************************************************)
(* C9.  strip_double_quotes is idempotent: applying it to its own result   *)
(* changes nothing.                                                        *)
(***************************************************************************)
C9_StripDoubleQuotesIdempotent ==
    op = "strip_double_quotes" => strip_double_quotes(res) = res

\* Amended: it is idempotent on every string in which no two double quotes
\* are separated by whitespace only.
QuotesApart(s) ==
    \E i, j \in 1..Len(s) :
        /\ i + 1 < j
        /\ s[i] = "\""
        /\ s[j] = "\""
        /\ \A k \in (i + 1)..(j - 1) : s[k] \in Whitespace

C9_IdempotentUnlessQuotesApart ==
    (op = "strip_double_quotes" /\ ~QuotesApart(text))
        => strip_double_quotes(res) = res

C9_Witness ==
    /\ op = "strip_double_quotes"
    /\ text = <<" ", "\"", "a", "\"">>
    /\ ~QuotesApart(text)
    /\ res = <<"a">>

(***************************************************************************)
(* C10.  strip_terminating_semicolon removes at most one trailing          *)
(* semicolon: the result is the trimmed input, without its last character  *)
(* and trimmed again when that character is a semicolon.                   *)
(***************************************************************************)
ClaimedAtMostOne(sql) ==
    LET t == Strip(sql)
    IN  IF t # <<>> /\ t[Len(t)] = ";"
        THEN Strip(SubSeq(t, 1, Len(t) - 1))
        ELSE t

C10_AtMostOneSemicolon ==
    op = "strip_terminating_semicolon" => res = ClaimedAtMostOne(text)

\* Amended: it removes the whole run of semicolons that ends the trimmed
\* input, and the whitespace in front of that run: the trimmed input is the
\* result, then w whitespace characters, then k semicolons, with k as large
\* as it can be.
C10_RemovesTrailingRun ==
    op = "strip_terminating_semicolon"
        => LET t == Strip(text)
           IN  \E k, w \in 0..Len(t) :
                   /\ k + w <= Len(t)
                   /\ res = SubSeq(t, 1, Len(t) - k - w)
                   /\ \A i \in (Len(t) - k + 1)..Len(t) : t[i] = ";"
                   /\ \A i \in (Len(t) - k - w + 1)..(Len(t) - k) :
                          t[i] \in Whitespace
                   /\ k = 0 => w = 0
                   /\ res # <<>> => res[Len(res)] \notin Whitespace
                   /\ (w = 0 /\ res # <<>>) => res[Len(res)] # ";"

C10_Witness ==
    /\ op = "strip_terminating_semicolon"
    /\ text = <<"a", ";", ";">>
    /\ res = <<"a">>

====
